---- MODULE Spec2Model ----
(***************************************************************************)
(* The WebRTC signalling rendezvous service (tocuto/signalling): sessions  *)
(* ("auth" records) and rooms kept in an object store, the /ident and      *)
(* /poll handlers and the cleanup sweep.  Every store operation is a       *)
(* suspension point of its handler, so a handler is a sequence of steps    *)
(* that interleave with the steps of the other handlers.  A client polls   *)
(* sequentially: one request in flight per token.                          *)
(*                                                                         *)
(* Time is counted in ticks, Sub ticks to the second: SystemTime keeps the *)
(* sub-second part, the metadata encoding (as_secs) does not.              *)
(* Option<T> is a sequence: <<>> is None, <<v>> is Some(v).                *)
(***************************************************************************)
EXTENDS Integers, Sequences, FiniteSets, TLC

\* ---------------------------------------------------------------- bounds
\* Ticks to the second.
Sub == 2
\* The clock stops at MaxNow ticks past the start and past the jump.
MaxNow == 1
\* Candidates (the terminator apart) a client gets into its queue.
MaxCands == 1

\* ------------------------------------------------------ program constants
GRACE_PERIOD == 20
MAX_CONNECTION == 3600
FIRST_POLL == 1
POLL == 10
CONNECT == 5
FAST_POLL == 1

None == <<>>
Some(v) == <<v>>
Secs(n) == n * Sub

Tokens == {"A", "B", "C"}
Codes == {"R1", "R2"}
Services == {"svc-1", "svc-2"}

\* ---------------------------------------------------------------- signals
SetSDP(v) == [tag |-> "SetSDP", val |-> v]
AddCandidate(c) == [tag |-> "AddCandidate", val |-> c]
JoinRoom(code) == [tag |-> "JoinRoom", val |-> code]
ConnectAt(at) == [tag |-> "ConnectAt", at |-> at]
NextPoll(at) == [tag |-> "NextPoll", at |-> at]

\* can_send that lets JoinRoom through.
can_send_join(s) == s.tag \in {"SetSDP", "AddCandidate", "JoinRoom"}

can_send(s) == s.tag \in {"SetSDP", "AddCandidate"}

\* ------------------------------------------------------------ record layer
\* Metadata encoding of a timestamp: decimal seconds since the epoch.
EncodeTime(t) == t \div Sub
DecodeTime(s) == s * Sub
\* Metadata encoding of an optional string: absent is the empty string.
EncodeOpt(o) == IF o = None THEN "" ELSE o[1]
DecodeOpt(s) == IF s = "" THEN None ELSE Some(s)

get_bucket_key(prefix, key) == <<prefix, key>>

\* Data::create for a session: default body, default metadata at `t`.
AuthDefault(t) ==
  [ sent_sdp |-> FALSE, ice_done |-> FALSE, queue |-> <<>>, read |-> 0,
    connect_at |-> None, sent_join |-> FALSE, read_connect |-> FALSE,
    kill_at |-> t + Secs(MAX_CONNECTION), next_poll |-> t + Secs(FIRST_POLL),
    room |-> None, peer |-> None, service |-> None ]

\* Data::write of a session: the body as it is, the metadata encoded.
AuthEncode(u) ==
  [ u EXCEPT !.kill_at = EncodeTime(@), !.next_poll = EncodeTime(@),
             !.room = EncodeOpt(@), !.peer = EncodeOpt(@),
             !.service = EncodeOpt(@) ]

\* Data::load / Data::read of a session.
AuthDecode(o) ==
  [ o EXCEPT !.kill_at = DecodeTime(@), !.next_poll = DecodeTime(@),
             !.room = DecodeOpt(@), !.peer = DecodeOpt(@),
             !.service = DecodeOpt(@) ]

RoomDefault == [ service |-> "", offer |-> "", answer |-> None ]

\* ------------------------------------------------------------- session core
get_service(u) == u.service

with_service(u, svc) ==
  IF u.service = None THEN [u EXCEPT !.service = Some(svc)] ELSE u

set_room(u, code) == [u EXCEPT !.room = Some(code)]

set_peer(u, peer) == [u EXCEPT !.peer = peer]

\* poll with the two paces swapped.
poll_swapped(u, t) ==
  [u EXCEPT !.next_poll =
     t + Secs(IF u.peer # None THEN POLL ELSE FAST_POLL)]

poll(u, t) ==
  [u EXCEPT !.next_poll =
     t + Secs(IF u.peer # None THEN FAST_POLL ELSE POLL)]

\* send_one without the "can't set SDP twice" check.
send_one_twice(u, s) ==
  IF ~can_send(s) THEN u
  ELSE IF s.tag = "SetSDP"
    THEN [u EXCEPT !.sent_sdp = TRUE, !.queue = Append(@, s)]
    ELSE IF u.ice_done THEN u
         ELSE [u EXCEPT !.ice_done = (s.val = ""), !.queue = Append(@, s)]

\* One turn of send_signal's loop.
send_one(u, s) ==
  IF ~can_send(s) THEN u
  ELSE IF s.tag = "SetSDP"
    THEN IF u.sent_sdp THEN u
         ELSE [u EXCEPT !.sent_sdp = TRUE, !.queue = Append(@, s)]
    ELSE IF u.ice_done THEN u
         ELSE [u EXCEPT !.ice_done = (s.val = ""), !.queue = Append(@, s)]

RECURSIVE send_signal(_, _)
send_signal(u, signals) ==
  IF signals = <<>> THEN u
  ELSE send_signal(send_one(u, Head(signals)), Tail(signals))

\* try_connect counting from the caller's own next_poll.
try_connect_self(s, p) ==
  IF s.connect_at # None THEN s
  ELSE IF p.connect_at # None
    THEN [s EXCEPT !.connect_at = p.connect_at, !.read_connect = FALSE]
  ELSE IF ~s.sent_sdp \/ ~p.sent_sdp THEN s
  ELSE IF ~s.ice_done /\ ~p.ice_done THEN s
  ELSE [s EXCEPT !.connect_at = Some(s.next_poll + Secs(CONNECT)),
                 !.read_connect = FALSE]

\* try_connect that does not ask for both SDPs.
try_connect_nosdp(s, p) ==
  IF s.connect_at # None THEN s
  ELSE IF p.connect_at # None
    THEN [s EXCEPT !.connect_at = p.connect_at, !.read_connect = FALSE]
  ELSE IF ~s.ice_done /\ ~p.ice_done THEN s
  ELSE [s EXCEPT !.connect_at = Some(p.next_poll + Secs(CONNECT)),
                 !.read_connect = FALSE]

\* try_connect without its early return on a connect_at that is already set.
try_connect_again(s, p) ==
  IF p.connect_at # None
    THEN [s EXCEPT !.connect_at = p.connect_at, !.read_connect = FALSE]
  ELSE IF ~s.sent_sdp \/ ~p.sent_sdp THEN s
  ELSE IF ~s.ice_done /\ ~p.ice_done THEN s
  ELSE [s EXCEPT !.connect_at = Some(p.next_poll + Secs(CONNECT)),
                 !.read_connect = FALSE]

try_connect(s, p) ==
  IF s.connect_at # None THEN s
  ELSE IF p.connect_at # None
    THEN [s EXCEPT !.connect_at = p.connect_at, !.read_connect = FALSE]
  ELSE IF ~s.sent_sdp \/ ~p.sent_sdp THEN s
  ELSE IF ~s.ice_done /\ ~p.ice_done THEN s
  ELSE [s EXCEPT !.connect_at = Some(p.next_poll + Secs(CONNECT)),
                 !.read_connect = FALSE]

\* The slice taken one entry late.
QueueFrom_late(q, n) == IF n + 1 > Len(q) THEN <<>> ELSE SubSeq(q, n + 2, Len(q))

\* queue.get(read..).unwrap_or_default()
QueueFrom(q, n) == IF n > Len(q) THEN <<>> ELSE SubSeq(q, n + 1, Len(q))

\* read_signals advancing read by the queue's length instead of setting it.
read_signals_add(s, p) ==
  LET c == try_connect(s, p)
  IN [ user |-> [c EXCEPT !.read = @ + Len(p.queue)],
       signals |-> QueueFrom(p.queue, c.read) ]

\* read_signals: the user after it, and the signals read.
read_signals(s, p) ==
  LET c == try_connect(s, p)
  IN [ user |-> [c EXCEPT !.read = Len(p.queue)],
       signals |-> QueueFrom(p.queue, c.read) ]

\* pull_signals that never records that JoinRoom was sent.
pull_signals_rejoin(s, peer) ==
  LET r    == IF peer # None THEN read_signals(s, peer[1])
              ELSE [user |-> s, signals |-> <<>>]
      join == r.user.room # None /\ ~r.user.sent_join
      s1   == IF join THEN Append(r.signals, JoinRoom(r.user.room[1]))
              ELSE r.signals
      conn == r.user.connect_at # None /\ ~r.user.read_connect
      u2   == IF conn THEN [r.user EXCEPT !.read_connect = TRUE] ELSE r.user
      s2   == IF conn THEN Append(s1, ConnectAt(u2.connect_at[1])) ELSE s1
  IN [ user |-> u2, signals |-> Append(s2, NextPoll(u2.next_poll)) ]

\* pull_signals that sends ConnectAt without recording that it did.
pull_signals_unread(s, peer) ==
  LET r    == IF peer # None THEN read_signals(s, peer[1])
              ELSE [user |-> s, signals |-> <<>>]
      join == r.user.room # None /\ ~r.user.sent_join
      u1   == IF join THEN [r.user EXCEPT !.sent_join = TRUE] ELSE r.user
      s1   == IF join THEN Append(r.signals, JoinRoom(u1.room[1]))
              ELSE r.signals
      conn == u1.connect_at # None /\ ~u1.read_connect
      s2   == IF conn THEN Append(s1, ConnectAt(u1.connect_at[1])) ELSE s1
  IN [ user |-> u1, signals |-> Append(s2, NextPoll(u1.next_poll)) ]

\* pull_signals: the user after it, and the batch for the client.
pull_signals(s, peer) ==
  LET r    == IF peer # None THEN read_signals(s, peer[1])
              ELSE [user |-> s, signals |-> <<>>]
      join == r.user.room # None /\ ~r.user.sent_join
      u1   == IF join THEN [r.user EXCEPT !.sent_join = TRUE] ELSE r.user
      s1   == IF join THEN Append(r.signals, JoinRoom(u1.room[1]))
              ELSE r.signals
      conn == u1.connect_at # None /\ ~u1.read_connect
      u2   == IF conn THEN [u1 EXCEPT !.read_connect = TRUE] ELSE u1
      s2   == IF conn THEN Append(s1, ConnectAt(u2.connect_at[1])) ELSE s1
  IN [ user |-> u2, signals |-> Append(s2, NextPoll(u2.next_poll)) ]

\* is_done without its test of the two ice_done flags.
is_done_noice(s, p) ==
  /\ s.connect_at # None
  /\ Len(p.queue) = s.read

\* p.queue.len() - s.read > 0 on usize: a wrapped difference is not zero.
is_done(s, p) ==
  /\ s.connect_at # None
  /\ s.ice_done /\ p.ice_done
  /\ Len(p.queue) = s.read

\* is_alive without the ceiling of kill_at.
is_alive_grace(u, t) == t < u.next_poll + Secs(GRACE_PERIOD)

is_alive(u, t) ==
  LET a == u.kill_at
      b == u.next_poll + Secs(GRACE_PERIOD)
  IN t < (IF a < b THEN a ELSE b)

\* get_keys_to_kill that leaves the room out.
get_keys_to_kill_noroom(key, u, t) ==
  IF is_alive(u, t) THEN {}
  ELSE {get_bucket_key("auth", key)}
       \cup (IF u.peer # None THEN {get_bucket_key("auth", u.peer[1])} ELSE {})

get_keys_to_kill(key, u, t) ==
  IF is_alive(u, t) THEN {}
  ELSE {get_bucket_key("auth", key)}
       \cup (IF u.peer # None THEN {get_bucket_key("auth", u.peer[1])} ELSE {})
       \cup (IF u.room # None THEN {get_bucket_key("room", u.room[1])} ELSE {})

\* --------------------------------------------------------------------- room
\* get_peer that answers the offer to every caller.
room_get_peer_offer(r, key) == Some(r.offer)

\* Room::get_peer
room_get_peer(r, key) == IF key = r.offer THEN r.answer ELSE Some(r.offer)

\* join_room as it was before the service tag gated the second joiner.
join_room_nogate(r, code, key, u) ==
  LET is_offer  == r.offer = ""
      is_answer == r.answer = None
  IN IF ~is_offer /\ ~is_answer THEN [ok |-> FALSE, room |-> r, user |-> u]
     ELSE IF is_offer
       THEN [ ok |-> TRUE, user |-> set_room(u, code),
              room |-> [r EXCEPT !.service = get_service(u)[1], !.offer = key] ]
     ELSE [ ok |-> TRUE, user |-> set_room(u, code),
            room |-> [r EXCEPT !.answer = Some(key)] ]

\* Room::join_room: whether the join succeeded, the room and the joiner after.
join_room(r, code, key, u) ==
  LET service   == get_service(u)[1]
      is_offer  == r.offer = ""
      is_answer == r.answer = None
  IN IF ~is_offer /\ ~is_answer THEN [ok |-> FALSE, room |-> r, user |-> u]
     ELSE IF is_offer
       THEN [ ok |-> TRUE, user |-> set_room(u, code),
              room |-> [r EXCEPT !.service = service, !.offer = key] ]
     ELSE IF service # r.service THEN [ok |-> FALSE, room |-> r, user |-> u]
     ELSE [ ok |-> TRUE, user |-> set_room(u, code),
            room |-> [r EXCEPT !.answer = Some(key)] ]

\* -------------------------------------------------------------------- state
VARIABLES
  now,      \* the clock, in ticks
  auths,    \* the store's "auth:<token>" objects: token -> Option(object)
  rooms,    \* the store's "room:<code>" objects: code -> Option(object)
  req,      \* the /poll request in flight for each token
  sweep,    \* the cleanup sweep in flight
  resp,     \* the error response the last step sent, if it sent one
  issued,   \* the keys new_key has drawn so far
  hist      \* per token, what its responses have delivered so far

vars == <<now, auths, rooms, req, sweep, resp, issued, hist>>

Idle ==
  [ pc |-> "idle", user |-> None, code |-> "", room |-> None, join |-> None,
    out |-> <<>>, obs |-> None, at |-> 0, armed |-> FALSE, resent |-> FALSE,
    wrote |-> {}, seed |-> 0, drawn |-> 0 ]

NoSweep ==
  [ pc |-> "idle", pending |-> {}, kill |-> {}, expired |-> {}, alive |-> {},
    named |-> {}, capped |-> {}, rewritten |-> {} ]

Reply(t, status, msg) == [tok |-> t, status |-> status, msg |-> msg]

NoReply == Reply("", 0, "")

Init ==
  /\ now = 0
  /\ auths = [t \in Tokens |-> None]
  /\ rooms = [c \in Codes |-> None]
  /\ req = [t \in Tokens |-> Idle]
  /\ sweep = NoSweep
  /\ resp = NoReply
  /\ issued = {}
  /\ hist = [t \in Tokens |->
               [delivered |-> <<>>, joins |-> 0, connects |-> 0, fresh |-> FALSE]]

\* A put that lands while a sweep is deleting is remembered by the sweep's record.
NotePut(key) ==
  IF sweep.pc = "delete"
    THEN [sweep EXCEPT !.rewritten = @ \cup {key}] ELSE sweep

\* The first JoinRoom of a batch, if any.
RECURSIVE FindJoin(_)
FindJoin(batch) ==
  IF batch = <<>> THEN None
  ELSE IF Head(batch).tag = "JoinRoom" THEN Some(Head(batch).val)
  ELSE FindJoin(Tail(batch))

\* The HTTP layer's check of a submitted batch.
ValidBatch(batch) ==
  \A i \in 1..Len(batch) : batch[i].tag = "JoinRoom" \/ can_send(batch[i])

\* Both sessions of a pair have stored sent_sdp and one has stored ice_done.
Armed(t) ==
  /\ auths[t] # None
  /\ auths[t][1].peer # ""
  /\ auths[auths[t][1].peer] # None
  /\ LET s == auths[t][1]
         p == auths[s.peer][1]
     IN s.sent_sdp /\ p.sent_sdp /\ (s.ice_done \/ p.ice_done)

\* ------------------------------------------------------------------- /ident
Ident(t) ==
  /\ get_bucket_key("auth", t) \notin issued
  /\ auths[t] = None
  /\ issued' = issued \cup {get_bucket_key("auth", t)}
  /\ auths' = [auths EXCEPT ![t] = Some(AuthEncode(AuthDefault(now)))]
  /\ resp' = NoReply
  /\ sweep' = NotePut(get_bucket_key("auth", t))
  /\ UNCHANGED <<now, rooms, req, hist>>

\* The strings a generator seeded with `seed` yields, the i-th of them (from 0):
\* one fixed sequence for each seed.
KeyOrder == <<"A", "B", "C">>

random_string(seed, i) == KeyOrder[((seed + i) % Len(KeyOrder)) + 1]

\* Auth::create for client c, one head at a time: new_key seeds its generator
\* with the clock's whole seconds, draws the next string and asks the store for
\* it; a string the store does not hold is the key, and create fills in the
\* default record.
IdentHead(c) ==
  /\ req[c].pc \in {"idle", "head"}
  /\ LET seed  == IF req[c].pc = "idle" THEN EncodeTime(now) ELSE req[c].seed
         drawn == IF req[c].pc = "idle" THEN 0 ELSE req[c].drawn
         key   == random_string(seed, drawn)
     IN /\ drawn < Len(KeyOrder)
        /\ IF auths[key] # None
           THEN /\ req' = [req EXCEPT ![c] =
                           [Idle EXCEPT !.pc = "head", !.seed = seed,
                                        !.drawn = drawn + 1]]
                /\ UNCHANGED issued
           ELSE /\ req' = [req EXCEPT ![c] =
                           [Idle EXCEPT !.pc = "created", !.seed = seed,
                                        !.drawn = drawn + 1, !.code = key,
                                        !.user = Some(AuthDefault(now))]]
                /\ issued' = issued \cup {get_bucket_key("auth", key)}
  /\ resp' = NoReply
  /\ UNCHANGED <<now, auths, rooms, sweep, hist>>

\* auth.write, and the token goes to client c.
IdentPut(c) ==
  /\ req[c].pc = "created"
  /\ auths' = [auths EXCEPT ![req[c].code] = Some(AuthEncode(req[c].user[1]))]
  /\ req' = [req EXCEPT ![c].pc = "held"]
  /\ sweep' = NotePut(get_bucket_key("auth", req[c].code))
  /\ resp' = NoReply
  /\ UNCHANGED <<now, rooms, issued, hist>>

\* -------------------------------------------------------------------- /poll
\* The batch holds a tag the client may not send: 400, nothing is read.
PollInvalid(t, batch) ==
  /\ req[t].pc = "idle"
  /\ ~ValidBatch(batch)
  /\ resp' = Reply(t, 400, "Invalid signals: can't send.")
  /\ UNCHANGED <<now, auths, rooms, req, sweep, issued, hist>>

Candidates(q) ==
  Cardinality({i \in 1..Len(q) : q[i].tag = "AddCandidate" /\ q[i].val # ""})

\* The batch repeats the whole offer of a session that has sent its SDP and its
\* last candidate: an SDP, a candidate and the terminator.
Resent(user, batch) ==
  /\ user.sent_sdp /\ user.ice_done
  /\ \E i, j, k \in 1..Len(batch) :
        /\ batch[i].tag = "SetSDP"
        /\ batch[j].tag = "AddCandidate" /\ batch[j].val # ""
        /\ batch[k].tag = "AddCandidate" /\ batch[k].val = ""

\* From the peer's load on: is_done, then poll, send_signal, pull_signals, which
\* leave the record to write and the reply to send.
Run(t, user, batch) ==
  LET peer == IF user.peer = None \/ auths[user.peer[1]] = None THEN None
              ELSE Some(AuthDecode(auths[user.peer[1]][1]))
  IN IF peer # None /\ is_done(user, peer[1])
     THEN /\ resp' = Reply(t, 400, "Connection done.")
          /\ req' = [req EXCEPT ![t] = Idle]
     ELSE LET sent == send_signal(poll(user, now), batch)
              r    == pull_signals(sent, peer)
          IN /\ Candidates(sent.queue) <= MaxCands
             /\ req' = [req EXCEPT ![t] =
                          [Idle EXCEPT !.pc = "write",
                                       !.user = Some(r.user),
                                       !.out = r.signals,
                                       !.obs = IF peer = None THEN None
                                               ELSE Some(Len(peer[1].queue)),
                                       !.at = now,
                                       !.armed = Armed(t),
                                       !.resent = Resent(user, batch),
                                       !.wrote = req[t].wrote]]
             /\ resp' = NoReply

\* Auth::load of the caller and the handler up to its next store operation: the
\* peer's load when the caller has a peer, else Room::load of its room, else
\* Room::load of the room the batch names or Room::create, and join_room.
\* (The caller's record is written by the caller's own requests only, so its
\* load is taken together with the read that follows it.)
PollStart(t, svc, batch, codes) ==
  /\ req[t].pc = "idle"
  /\ ValidBatch(batch)
  /\ IF auths[t] = None
     THEN /\ resp' = Reply(t, 403, "Invalid token.")
          /\ UNCHANGED <<req, issued>>
     ELSE LET user == with_service(AuthDecode(auths[t][1]), svc)
              join == FindJoin(batch)
          IN IF user.peer # None
             THEN Run(t, user, batch) /\ UNCHANGED issued
             ELSE IF user.room # None
             THEN /\ UNCHANGED issued
                  /\ IF rooms[user.room[1]] = None
                     THEN /\ resp' = Reply(t, 400, "Room expired.")
                          /\ UNCHANGED req
                     ELSE /\ req' = [req EXCEPT ![t] =
                                 [Idle EXCEPT !.pc = "getpeer",
                                    !.user = Some(set_peer(user,
                                        room_get_peer(rooms[user.room[1]][1], t)))]]
                          /\ resp' = NoReply
             ELSE IF join # None /\ rooms[join[1]] = None
             THEN /\ resp' = Reply(t, 404, "Room not found.")
                  /\ UNCHANGED <<req, issued>>
             ELSE \E code \in codes :
                    /\ IF join # None THEN code = join[1]
                       ELSE /\ get_bucket_key("room", code) \notin issued
                            /\ rooms[code] = None
                    /\ issued' = IF join # None THEN issued
                                 ELSE issued \cup {get_bucket_key("room", code)}
                    /\ LET room == IF join # None THEN rooms[code][1] ELSE RoomDefault
                           j    == join_room(room, code, t, user)
                       IN IF ~j.ok
                          THEN /\ resp' = Reply(t, 400, "Room is full.")
                               /\ UNCHANGED req
                          ELSE /\ req' = [req EXCEPT ![t] =
                                      [Idle EXCEPT !.pc = "putroom",
                                                   !.user = Some(j.user),
                                                   !.code = code,
                                                   !.room = Some(j.room),
                                                   !.join = Some(join)]]
                               /\ resp' = NoReply
  /\ UNCHANGED <<now, auths, rooms, sweep, hist>>

\* room.write after a join (the room is modified), then set_peer.  A room that
\* was only loaded is not modified, and Data::write returns before its put.
PollWriteRoom(t) ==
  /\ req[t].pc = "putroom"
  /\ LET room == req[t].room[1]
         user == req[t].user[1]
     IN /\ rooms' = [rooms EXCEPT ![req[t].code] = Some(room)]
        /\ req' = [req EXCEPT ![t].pc = "getpeer",
                     ![t].user = Some(set_peer(user, room_get_peer(room, t))),
                     ![t].wrote = @ \cup {get_bucket_key("room", req[t].code)}]
  /\ sweep' = NotePut(get_bucket_key("room", req[t].code))
  /\ resp' = NoReply
  /\ UNCHANGED <<now, auths, issued, hist>>

\* Auth::load of the peer the room gave (if it gave one), and the rest of the
\* handler up to user.write.
PollLoadPeer(t, batch) ==
  /\ req[t].pc = "getpeer"
  /\ ValidBatch(batch)
  /\ req[t].join # None => FindJoin(batch) = req[t].join[1]
  /\ Run(t, req[t].user[1], batch)
  /\ UNCHANGED <<now, auths, rooms, sweep, issued, hist>>

\* The connection is dropped and the handler is not resumed at the store
\* operation it is waiting for: the room's put, the peer's load or the
\* session's put.
PollAbort(t) ==
  /\ req[t].pc # "idle"
  /\ req' = [req EXCEPT ![t] = Idle]
  /\ resp' = NoReply
  /\ UNCHANGED <<now, auths, rooms, sweep, issued, hist>>

Count(out, tag) == Cardinality({i \in 1..Len(out) : out[i].tag = tag})

Sent(out) == SelectSeq(out, can_send)

Min2(n) == IF n > 2 THEN 2 ELSE n

\* user.write that also puts the record under the peer's key.
PollWrite_peer(t) ==
  /\ req[t].pc = "write"
  /\ LET user == req[t].user[1]
         out  == req[t].out
     IN /\ auths' = [k \in Tokens |->
                      IF k = t \/ Some(k) = user.peer
                      THEN Some(AuthEncode(user)) ELSE auths[k]]
        /\ resp' = NoReply
        /\ hist' = [hist EXCEPT ![t] =
                     [ delivered |-> @.delivered \o Sent(out),
                       joins |-> Min2(@.joins + Count(out, "JoinRoom")),
                       connects |-> Min2(@.connects + Count(out, "ConnectAt")),
                       fresh |-> @.fresh \/ req[t].armed ]]
  /\ req' = [req EXCEPT ![t] = Idle]
  /\ sweep' = NotePut(get_bucket_key("auth", t))
  /\ UNCHANGED <<now, rooms, issued>>

\* user.write, and the reply.
PollWrite(t) ==
  /\ req[t].pc = "write"
  /\ LET user == req[t].user[1]
         out  == req[t].out
     IN /\ auths' = [auths EXCEPT ![t] = Some(AuthEncode(user))]
        /\ resp' = NoReply
        /\ hist' = [hist EXCEPT ![t] =
                     [ delivered |-> @.delivered \o Sent(out),
                       joins |-> Min2(@.joins + Count(out, "JoinRoom")),
                       connects |-> Min2(@.connects + Count(out, "ConnectAt")),
                       fresh |-> @.fresh \/ req[t].armed ]]
  /\ req' = [req EXCEPT ![t] = Idle]
  /\ sweep' = NotePut(get_bucket_key("auth", t))
  /\ UNCHANGED <<now, rooms, issued>>

\* ------------------------------------------------------------------ cleanup
Listed == {t \in Tokens : auths[t] # None}

\* The keys a listed session names: its peer's and its room's.
Named(t) ==
  LET u == AuthDecode(auths[t][1])
  IN (IF u.peer # None THEN {get_bucket_key("auth", u.peer[1])} ELSE {})
     \cup (IF u.room # None THEN {get_bucket_key("room", u.room[1])} ELSE {})

\* bucket.list() and the union of get_keys_to_kill.  (expired, alive, named and
\* capped record what the sweep saw; capped are the expired sessions still
\* within the grace period of their last poll.)
CleanupList ==
  /\ sweep.pc # "delete"
  /\ LET kill == UNION {get_keys_to_kill(t, AuthDecode(auths[t][1]), now) : t \in Listed}
         dead == {t \in Listed : ~(now < AuthDecode(auths[t][1]).kill_at
                                   /\ now < AuthDecode(auths[t][1]).next_poll
                                              + Secs(GRACE_PERIOD))}
     IN sweep' = [ pc |-> IF kill = {} THEN "done" ELSE "delete",
                   pending |-> kill, kill |-> kill,
                   expired |-> dead, alive |-> Listed \ dead,
                   named |-> UNION {Named(t) : t \in dead},
                   capped |-> {t \in dead :
                                 now < AuthDecode(auths[t][1]).next_poll
                                         + Secs(GRACE_PERIOD)},
                   rewritten |-> {} ]
  /\ resp' = NoReply
  /\ UNCHANGED <<now, auths, rooms, req, issued, hist>>

\* bucket.delete(key), one key of to_delete at a time.
CleanupDelete(key) ==
  /\ sweep.pc = "delete"
  /\ key \in sweep.pending
  /\ IF key[1] = "auth"
       THEN /\ auths' = [auths EXCEPT ![key[2]] = None]
            /\ UNCHANGED rooms
       ELSE /\ rooms' = [rooms EXCEPT ![key[2]] = None]
            /\ UNCHANGED auths
  /\ sweep' = [sweep EXCEPT !.pending = @ \ {key},
                 !.pc = IF sweep.pending = {key} THEN "done" ELSE "delete",
                 !.rewritten = @ \ {key}]
  /\ resp' = NoReply
  /\ UNCHANGED <<now, req, issued, hist>>

\* -------------------------------------------------------------------- clock
Tick(d, horizon) ==
  /\ now + d <= horizon
  /\ now' = now + d
  /\ resp' = NoReply
  /\ UNCHANGED <<auths, rooms, req, sweep, issued, hist>>

\* ------------------------------------------------------------------- inputs
SDP == SetSDP("sdp")
Cand == AddCandidate("c1")
End == AddCandidate("")

\* The batches clients submit while signalling.
SignalBatches ==
  { <<>>, <<SDP>>, <<Cand>>, <<End>>, <<SDP, SDP>>, <<End, Cand>>,
    <<SDP, Cand, End>> }

JoinBatches == { <<JoinRoom(c)>> : c \in Codes }

InvalidBatches == { <<NextPoll(0)>>, <<SDP, ConnectAt(0)>> }

\* ------------------------------------------------------------ specifications
\* Signalling: two clients that pair in one room and exchange SDP and
\* candidates, their requests interleaved.  The /poll handler never branches on
\* the clock, which stands still here.
PairTokens == {"A", "B"}
PairCodes == {"R1"}
PairBatches == SignalBatches \cup {<<JoinRoom(c)>> : c \in PairCodes}

Next ==
  \/ \E t \in PairTokens : Ident(t)
  \/ \E t \in PairTokens, b \in PairBatches : PollStart(t, "svc-1", b, PairCodes)
  \/ \E t \in PairTokens : PollWriteRoom(t)
  \/ \E t \in PairTokens, b \in PairBatches : PollLoadPeer(t, b)
  \/ \E t \in PairTokens : PollWrite(t)

Spec == Init /\ [][Next]_vars

\* Rooms: three clients with service tags of their own choosing that create and
\* join rooms, their requests interleaved; no SDP, no candidates.
RoomBatches == {<<>>} \cup JoinBatches

RoomNext ==
  \/ \E t \in Tokens : Ident(t)
  \/ \E t \in Tokens, b \in InvalidBatches : PollInvalid(t, b)
  \/ \E t \in Tokens, svc \in Services, b \in RoomBatches :
        PollStart(t, svc, b, PairCodes)
  \/ \E t \in Tokens : PollWriteRoom(t)
  \/ \E t \in Tokens, b \in RoomBatches : PollLoadPeer(t, b)
  \/ \E t \in Tokens : PollWrite(t)

SpecRoom == Init /\ [][RoomNext]_vars

\* Dropped connections: as Rooms, and a request may be dropped at any of its
\* store operations.
AbortNext ==
  \/ RoomNext
  \/ \E t \in Tokens : PollAbort(t)

SpecAbort == Init /\ [][AbortNext]_vars

\* Keys: three clients that call /ident, their requests interleaved, while the
\* clock runs from one second into the next.
KeysNext ==
  \/ \E c \in Tokens : IdentHead(c)
  \/ \E c \in Tokens : IdentPut(c)
  \/ Tick(1, Secs(1) + MaxNow)

SpecKeys == Init /\ [][KeysNext]_vars

\* Lifetime: two clients that pair and keep polling or fall silent while the
\* clock runs and the cleanup sweep is scheduled; no SDP, no candidates.  The
\* clock moves by single ticks and, once, by a jump that outlasts the grace
\* period of a paired session.
Jump == Secs(GRACE_PERIOD + FAST_POLL)

ClockNext ==
  \/ \E t \in PairTokens : Ident(t)
  \/ \E t \in PairTokens, b \in {<<>>} \cup {<<JoinRoom(c)>> : c \in PairCodes} :
        PollStart(t, "svc-1", b, PairCodes)
  \/ \E t \in PairTokens : PollWriteRoom(t)
  \/ \E t \in PairTokens : PollLoadPeer(t, <<>>)
  \/ \E t \in PairTokens : PollLoadPeer(t, <<JoinRoom("R1")>>)
  \/ \E t \in PairTokens : PollWrite(t)
  \/ CleanupList
  \/ \E k \in sweep.pending : CleanupDelete(k)
  \/ Tick(1, (now \div Jump) * Jump + MaxNow)
  \/ Tick(Jump, Jump + MaxNow)

SpecClock == Init /\ [][ClockNext]_vars

\* The hour: as Lifetime, with the one jump taking the clock to the last tick
\* before the kill_at of a session created at the start.
HourJump == Secs(MAX_CONNECTION) - 1

HourNext ==
  \/ \E t \in PairTokens : Ident(t)
  \/ \E t \in PairTokens, b \in {<<>>} \cup {<<JoinRoom(c)>> : c \in PairCodes} :
        PollStart(t, "svc-1", b, PairCodes)
  \/ \E t \in PairTokens : PollWriteRoom(t)
  \/ \E t \in PairTokens : PollLoadPeer(t, <<>>)
  \/ \E t \in PairTokens : PollLoadPeer(t, <<JoinRoom("R1")>>)
  \/ \E t \in PairTokens : PollWrite(t)
  \/ CleanupList
  \/ \E k \in sweep.pending : CleanupDelete(k)
  \/ Tick(1, (now \div HourJump) * HourJump + MaxNow)
  \/ Tick(HourJump, HourJump + MaxNow)

SpecHour == Init /\ [][HourNext]_vars

\* ------------------------------------------------------------------- claims
Stored(t) == auths[t][1]

\* t's record is stored, names a peer, and the peer's record is stored.
HasPeer(t) ==
  /\ auths[t] # None
  /\ Stored(t).peer # ""
  /\ auths[Stored(t).peer] # None

PeerOf(t) == Stored(t).peer

IsPrefix(a, b) == Len(a) <= Len(b) /\ a = SubSeq(b, 1, Len(a))

\* C1: connect symmetry.  Once two paired sessions both have sent_sdp and one has
\* ice_done in the store, and each has since completed a successful poll (one
\* whose reads saw that), both stored connect_at values are set and equal.
ConnectSymmetry ==
  \A t \in Tokens :
    (/\ HasPeer(t) /\ HasPeer(PeerOf(t)) /\ PeerOf(PeerOf(t)) = t
     /\ hist[t].fresh /\ hist[PeerOf(t)].fresh)
    => /\ Stored(t).connect_at # None
       /\ Stored(t).connect_at = Stored(PeerOf(t)).connect_at

\* C2: in-order delivery.  What a session's polls have returned of its peer's
\* signals is a prefix of the peer's stored queue, and a poll that loaded the
\* peer brings the returned signals up to the whole queue it loaded.
InOrderDelivery ==
  \A t \in Tokens :
    HasPeer(t) =>
      /\ IsPrefix(hist[t].delivered, Stored(PeerOf(t)).queue)
      /\ (req[t].pc = "write" /\ req[t].obs # None) =>
            /\ req[t].obs[1] <= Len(Stored(PeerOf(t)).queue)
            /\ hist[t].delivered \o Sent(req[t].out)
                 = SubSeq(Stored(PeerOf(t)).queue, 1, req[t].obs[1])

\* A poll has returned two of the peer's signals, and the peer has sent more.
InOrderWitness ==
  \E t \in Tokens :
    /\ HasPeer(t)
    /\ Len(hist[t].delivered) >= 2
    /\ Len(Stored(PeerOf(t)).queue) > Len(hist[t].delivered)

\* C3: monotone read cursor.  A session's stored read never decreases and never
\* exceeds the length of its peer's stored queue, and the poll that loaded the
\* peer writes as read the length of the queue it loaded.
ReadBounded ==
  \A t \in Tokens :
    HasPeer(t) => Stored(t).read <= Len(Stored(PeerOf(t)).queue)

ReadGrows ==
  \A t \in Tokens :
    /\ (auths[t] # None /\ auths'[t] # None) => auths'[t][1].read >= auths[t][1].read
    /\ (req[t].pc = "write" /\ req'[t].pc = "idle" /\ req[t].obs # None)
         => auths'[t][1].read = req[t].obs[1]

\* C3: a stored read cursor never decreases, and a poll sets it to the length of the peer's queue it observed.
MonotoneRead == []ReadBounded /\ [][ReadGrows]_vars

\* A session that has read two signals of its peer polls again.
MonotoneReadWitness ==
  \E t \in Tokens :
    /\ HasPeer(t)
    /\ Stored(t).read >= 2
    /\ req[t].pc = "write" /\ req[t].obs # None
    /\ req[t].user[1].read > Stored(t).read

\* C4: at-most-once control signals.  Over all of a session's responses JoinRoom
\* appears at most once and ConnectAt appears at most once.
AtMostOnceControl ==
  \A t \in Tokens : hist[t].joins <= 1 /\ hist[t].connects <= 1

\* A session that has been sent both has another response ready.
AtMostOnceWitness ==
  \E t \in Tokens :
    /\ hist[t].joins = 1 /\ hist[t].connects = 1
    /\ req[t].pc = "write"

\* C6: flag monotonicity.  From one stored state of a session to the next,
\* sent_sdp, ice_done, sent_join and read_connect do not go from true to false,
\* and a set connect_at keeps its value.
FlagsKept ==
  \A t \in Tokens :
    (auths[t] # None /\ auths'[t] # None) =>
      LET a == auths[t][1]
          b == auths'[t][1]
      IN /\ a.sent_sdp => b.sent_sdp
         /\ a.ice_done => b.ice_done
         /\ a.sent_join => b.sent_join
         /\ a.read_connect => b.read_connect
         /\ a.connect_at # None => b.connect_at = a.connect_at

\* C6: sent_sdp and ice_done, once stored true, stay true.
FlagMonotone == [][FlagsKept]_vars

\* A session with all four flags and connect_at stored has its next write ready.
FlagMonotoneWitness ==
  \E t \in Tokens :
    /\ auths[t] # None
    /\ Stored(t).sent_sdp /\ Stored(t).ice_done
    /\ Stored(t).sent_join /\ Stored(t).read_connect
    /\ Stored(t).connect_at # None
    /\ req[t].pc = "write"

\* C7: queue shape.  A stored queue holds at most one SetSDP and at most one
\* empty AddCandidate, and no AddCandidate after the empty one.
IsEnd(s) == s.tag = "AddCandidate" /\ s.val = ""

\* C7: a stored queue holds at most one SetSDP and at most one terminator, and nothing after the terminator.
QueueShape ==
  \A t \in Tokens :
    auths[t] # None =>
      LET q == Stored(t).queue
      IN /\ Cardinality({i \in 1..Len(q) : q[i].tag = "SetSDP"}) <= 1
         /\ Cardinality({i \in 1..Len(q) : IsEnd(q[i])}) <= 1
         /\ \A i, j \in 1..Len(q) :
              (IsEnd(q[i]) /\ i < j) => q[j].tag # "AddCandidate"

\* A queue that holds SetSDP, a candidate and the terminator, whose client
\* submits all three again: the poll leaves them out and keeps the queue.
QueueShapeWitness ==
  \E t \in Tokens :
    /\ auths[t] # None
    /\ Stored(t).sent_sdp /\ Stored(t).ice_done
    /\ Len(Stored(t).queue) = 3
    /\ req[t].pc = "write" /\ req[t].resent
    /\ req[t].user[1].queue = Stored(t).queue

\* C5: NextPoll.  A successful response holds exactly one NextPoll, as its last
\* element; its value is the time poll() took plus 1 s when the session has a
\* peer token after peer resolution and plus 10 s otherwise.
Last(q) == q[Len(q)]

NextPollLast(t) ==
  LET out  == req[t].out
      user == req[t].user[1]
  IN /\ Len(out) >= 1
     /\ Count(out, "NextPoll") = 1
     /\ Last(out).tag = "NextPoll"
     /\ Last(out).at = req[t].at + Secs(IF user.peer # None THEN FAST_POLL ELSE POLL)

\* C5 as claimed: and that value is the next_poll the same poll stores.
NextPollStored ==
  \A t \in Tokens :
    req[t].pc = "write" =>
      /\ NextPollLast(t)
      /\ Last(req[t].out).at = DecodeTime(AuthEncode(req[t].user[1]).next_poll)

\* C5 as amended: and the next_poll the same poll stores is that value cut to
\* whole seconds.
NextPollReady ==
  \A t \in Tokens : req[t].pc = "write" => NextPollLast(t)

NextPollWritten ==
  \A t \in Tokens :
    (req[t].pc = "write" /\ req'[t].pc = "idle") =>
      auths'[t][1].next_poll = EncodeTime(Last(req[t].out).at)

\* C5 as amended: the stored next_poll is the poll's instant plus the interval, truncated to whole seconds.
NextPollTruncated == []NextPollReady /\ [][NextPollWritten]_vars

\* A paired session's response is ready, computed between two whole seconds.
NextPollWitness ==
  \E t \in Tokens :
    /\ req[t].pc = "write"
    /\ req[t].user[1].peer # None
    /\ req[t].at % Sub # 0

\* C8: room capacity.  A session that asks to join a room whose two slots are
\* taken by others gets 400 "Room is full." and the store is left as it was;
\* and no more than two stored sessions carry the same room.
Joins(t, code) ==
  /\ auths[t] # None
  /\ Stored(t).room = "" /\ Stored(t).peer = ""
  /\ \E svc \in Services : PollStart(t, svc, <<JoinRoom(code)>>, {code})

ThirdJoinFails ==
  \A t \in Tokens, code \in Codes :
    (/\ rooms[code] # None
     /\ rooms[code][1].offer \notin {"", t}
     /\ rooms[code][1].answer \notin {None, Some(t)}
     /\ Joins(t, code))
    => /\ resp' = Reply(t, 400, "Room is full.")
       /\ UNCHANGED <<auths, rooms>>

AtMostTwo ==
  \A code \in Codes :
    Cardinality({t \in Tokens : auths[t] # None /\ Stored(t).room = code}) <= 2

\* C8: a room never gives its two slots to more than two sessions.
RoomCapacity == [][ThirdJoinFails]_vars /\ []AtMostTwo

\* C9: service gate.  A session that asks to join a room with its offer slot
\* taken and its answer slot free gets, with a service tag other than the
\* room's, 400 "Room is full." and the store is left as it was; with the room's
\* tag, the room it goes on to write has it in the answer slot and is otherwise
\* the room it loaded.
Tag(t, svc) == IF Stored(t).service = "" THEN svc ELSE Stored(t).service

ServiceGated ==
  \A t \in Tokens, code \in Codes, svc \in Services :
    (/\ rooms[code] # None
     /\ rooms[code][1].offer # ""
     /\ rooms[code][1].answer = None
     /\ auths[t] # None
     /\ Stored(t).room = "" /\ Stored(t).peer = ""
     /\ PollStart(t, svc, <<JoinRoom(code)>>, {code}))
    => IF Tag(t, svc) # rooms[code][1].service
       THEN /\ resp' = Reply(t, 400, "Room is full.")
            /\ req'[t].pc = "idle"
            /\ UNCHANGED <<auths, rooms>>
       ELSE /\ resp' = NoReply
            /\ req'[t].pc = "putroom"
            /\ req'[t].code = code
            /\ req'[t].room = Some([rooms[code][1] EXCEPT !.answer = Some(t)])
            /\ req'[t].user[1].room = Some(code)

RoomWritten ==
  \A t \in Tokens :
    (req[t].pc = "putroom" /\ req'[t].pc # "putroom") =>
      rooms'[req[t].code] = req[t].room

\* C9: a session joins a room only with the room's service tag.
ServiceGate == [][ServiceGated /\ RoomWritten]_vars

\* A join has just been refused on a room whose answer slot is still free.
ServiceGateWitness ==
  \E code \in Codes :
    /\ resp.msg = "Room is full."
    /\ rooms[code] # None
    /\ rooms[code][1].answer = None
    /\ rooms[code][1].offer # resp.tok

\* C10: cleanup closure.  At the end of a sweep (its last delete), every key
\* get_keys_to_kill returned for a session expired at the sweep is absent from
\* the store.
Key(t) == get_bucket_key("auth", t)

AbsentIn(a, r, key) ==
  IF key[1] = "auth" THEN a[key[2]] = None ELSE r[key[2]] = None

SweepEnds == sweep.pc = "delete" /\ sweep'.pc = "done"

\* C10 as claimed: and the key of no session alive at the sweep was deleted.
CleanupClosed ==
  SweepEnds =>
    /\ \A k \in sweep.kill : AbsentIn(auths', rooms', k)
    /\ \A t \in sweep.alive : Key(t) \notin sweep.kill

\* C10 as claimed: after a sweep, every expired session, its peer and its room are absent.
CleanupClosure == [][CleanupClosed]_vars

\* C10 as amended: absent unless a request wrote it back while the sweep was
\* deleting; the sweep deletes the keys of the expired sessions and the keys
\* they name and no others, so that a session alive at the sweep loses its
\* record just when an expired session names it as its peer.
CleanupNamed ==
  SweepEnds =>
    /\ sweep'.pending = {}
    /\ \A k \in sweep.kill : AbsentIn(auths', rooms', k) \/ k \in sweep'.rewritten
    /\ sweep.kill = {Key(t) : t \in sweep.expired} \cup sweep.named
    /\ \A t \in sweep.alive : Key(t) \in sweep.kill <=> Key(t) \in sweep.named

\* C10 as amended: after a sweep, every record it named is absent unless a request put it back meanwhile.
CleanupClosureNamed == [][CleanupNamed]_vars

\* A sweep is over that found one session of a pair expired and the other alive.
CleanupWitness ==
  /\ sweep.pc = "done"
  /\ sweep.expired # {}
  /\ \E t \in sweep.alive : Key(t) \in sweep.kill
  /\ \E k \in sweep.kill : k[1] = "room"
  /\ \A k \in sweep.kill : AbsentIn(auths, rooms, k)

\* C11: Connection done.  A poll is answered 400 "Connection done." exactly when
\* it loaded the caller's peer and found the caller's connect_at set, ice_done on
\* both sessions and the caller's read equal to the length of the peer's queue;
\* that poll is over with the answer and the store is as it was before it.
DoneFor(t) ==
  /\ HasPeer(t)
  /\ Stored(t).connect_at # None
  /\ Stored(t).ice_done /\ Stored(PeerOf(t)).ice_done
  /\ Stored(t).read = Len(Stored(PeerOf(t)).queue)

Polls(t) ==
  \/ \E b \in PairBatches : PollStart(t, "svc-1", b, PairCodes)
  \/ \E b \in PairBatches : PollLoadPeer(t, b)

RejectsDone ==
  \A t \in PairTokens :
    /\ (DoneFor(t) /\ Polls(t)) => resp' = Reply(t, 400, "Connection done.")
    /\ resp' = Reply(t, 400, "Connection done.")
         => /\ DoneFor(t) /\ Polls(t)
            /\ req[t].pc = "idle"
            /\ UNCHANGED <<auths, rooms, req, hist>>

\* C11: a poll is refused with "Connection done." exactly when is_done holds of the loaded pair, and a refused poll puts nothing.
ConnectionDone == [][RejectsDone]_vars

\* A poll has just been answered "Connection done.".
ConnectionDoneWitness ==
  /\ resp.status = 400 /\ resp.msg = "Connection done."
  /\ req[resp.tok].pc = "idle"

\* C12: SDP/ICE exchange.  B is paired with A, has been told its room and has
\* read nothing; A's stored queue is its SetSDP, one candidate and the
\* terminator.  B's poll that submits its SetSDP is a step from Answers(B) to
\* a reply that is ready; B's following poll starts from Followed(B).
Offer == <<SDP, Cand, End>>

Answers(t) ==
  /\ HasPeer(t)
  /\ Stored(PeerOf(t)).queue = Offer
  /\ Stored(t).sent_join /\ ~Stored(t).sent_sdp /\ Stored(t).read = 0
  /\ req[t].pc = "idle"
  /\ req'[t].pc = "write" /\ req'[t].user[1].sent_sdp

Followed(t) ==
  /\ HasPeer(t)
  /\ Stored(PeerOf(t)).queue = Offer
  /\ Stored(t).sent_sdp /\ Stored(t).read = Len(Offer)
  /\ hist[t].delivered = Offer
  /\ req[t].pc = "idle"
  /\ req'[t].pc = "write"

ConnectOf(t) == ConnectAt(DecodeTime(Stored(PeerOf(t)).next_poll) + Secs(CONNECT))

\* C12 as claimed: the reply to the first is A's three signals and NextPoll,
\* the reply to the second holds ConnectAt, A's stored next_poll plus 5 s.
ExchangeLate ==
  \A t \in PairTokens :
    /\ Answers(t) =>
          req'[t].out = Offer \o <<NextPoll(now + Secs(FAST_POLL))>>
    /\ Followed(t) =>
          req'[t].out = <<ConnectOf(t), NextPoll(now + Secs(FAST_POLL))>>

\* C12 as claimed: ConnectAt comes in the reply to the following poll.
ExchangeAsClaimed == [][ExchangeLate]_vars

\* C12 as amended: the reply to the first is A's three signals, then ConnectAt,
\* A's stored next_poll plus 5 s, then NextPoll; the reply to the second holds
\* no ConnectAt and none of A's signals again.
ExchangeAtOnce ==
  \A t \in PairTokens :
    /\ Answers(t) =>
          req'[t].out =
            Offer \o <<ConnectOf(t), NextPoll(now + Secs(FAST_POLL))>>
    /\ Followed(t) =>
          req'[t].out = <<NextPoll(now + Secs(FAST_POLL))>>

\* C12 as amended: ConnectAt comes in the reply that carries the offer's three signals.
Exchange == [][ExchangeAtOnce]_vars

\* B's reply to the poll that submitted its SetSDP is ready: it holds ConnectAt.
ExchangeWitness ==
  \E t \in PairTokens :
    /\ HasPeer(t)
    /\ Stored(PeerOf(t)).queue = Offer
    /\ Stored(PeerOf(t)).next_poll = POLL
    /\ Stored(t).sent_join /\ ~Stored(t).sent_sdp /\ Stored(t).read = 0
    /\ req[t].pc = "write" /\ req[t].user[1].sent_sdp
    /\ Len(req[t].out) = 5 /\ req[t].out[4].tag = "ConnectAt"

\* C13: pairing handshake.  A session with no room that polls without JoinRoom
\* is made offer of a room that did not exist and is told JoinRoom of it; one
\* that polls with JoinRoom(R) and R's service tag is made answer of R with the
\* offer as its peer and is told JoinRoom(R); the offer's next poll, loading R
\* with that answer, takes the answer as its peer.  A stored peer token never
\* changes, and the session an offer names as peer names the offer.
Creates(t) ==
  /\ req[t].pc = "idle" /\ req'[t].pc = "putroom" /\ req'[t].join = Some(None)

JoinsRoom(t) ==
  /\ req[t].pc = "idle" /\ req'[t].pc = "putroom" /\ req'[t].join # Some(None)

PairingSteps ==
  \A t \in Tokens :
    /\ Creates(t) =>
         /\ Stored(t).room = "" /\ Stored(t).peer = ""
         /\ rooms[req'[t].code] = None
         /\ get_bucket_key("room", req'[t].code) \notin issued
         /\ req'[t].room = Some([ service |-> req'[t].user[1].service[1],
                                   offer |-> t, answer |-> None ])
         /\ req'[t].user[1].room = Some(req'[t].code)
    /\ JoinsRoom(t) =>
         /\ Stored(t).room = "" /\ Stored(t).peer = ""
         /\ req'[t].join = Some(Some(req'[t].code))
         /\ rooms[req'[t].code] # None
         /\ rooms[req'[t].code][1].service = req'[t].user[1].service[1]
         /\ rooms[req'[t].code][1].offer # ""
         /\ rooms[req'[t].code][1].answer = None
         /\ req'[t].room = Some([rooms[req'[t].code][1] EXCEPT !.answer = Some(t)])
         /\ req'[t].user[1].room = Some(req'[t].code)
    /\ (req[t].pc = "putroom" /\ req'[t].pc = "getpeer") =>
         /\ rooms'[req[t].code] = req[t].room
         /\ req'[t].user[1].room = Some(req[t].code)
         /\ req'[t].user[1].peer =
              (IF req[t].room[1].offer = t THEN req[t].room[1].answer
               ELSE Some(req[t].room[1].offer))
    /\ (req[t].pc = "idle" /\ req'[t].pc = "getpeer") =>
         /\ Stored(t).room # "" /\ Stored(t).peer = ""
         /\ rooms[Stored(t).room] # None
         /\ UNCHANGED rooms
         /\ req'[t].user[1].peer =
              (IF rooms[Stored(t).room][1].offer = t
               THEN rooms[Stored(t).room][1].answer
               ELSE Some(rooms[Stored(t).room][1].offer))
    /\ (req[t].pc = "getpeer" /\ req'[t].pc = "write") =>
         /\ req'[t].user[1].peer = req[t].user[1].peer
         /\ req'[t].user[1].room = req[t].user[1].room
         /\ Count(req'[t].out, "JoinRoom") = (IF Stored(t).sent_join THEN 0 ELSE 1)
         /\ \A i \in 1..Len(req'[t].out) :
              req'[t].out[i].tag = "JoinRoom"
                => req'[t].out[i] = JoinRoom(req[t].user[1].room[1])
    /\ (req[t].pc = "write" /\ req'[t].pc = "idle") =>
         /\ auths'[t][1].peer = EncodeOpt(req[t].user[1].peer)
         /\ auths'[t][1].room = EncodeOpt(req[t].user[1].room)
    /\ (auths[t] # None /\ Stored(t).peer # "" /\ auths'[t] # None) =>
         auths'[t][1].peer = Stored(t).peer

OfferNamed ==
  \A t \in Tokens :
    (/\ HasPeer(t)
     /\ Stored(t).room # "" /\ rooms[Stored(t).room] # None
     /\ rooms[Stored(t).room][1].offer = t
     /\ Stored(PeerOf(t)).peer # "")
    => Stored(PeerOf(t)).peer = t

Created(t) == Key(t) \notin issued /\ Key(t) \in issued' 

KillAtKept ==
  \A t \in PairTokens :
    (auths[t] # None /\ auths'[t] # None) => auths'[t][1].kill_at = Stored(t).kill_at

AliveExactly ==
  \A t \in PairTokens :
    auths[t] # None =>
      /\ is_alive(AuthDecode(Stored(t)), now)
           <=> /\ now < DecodeTime(Stored(t).kill_at)
               /\ now < DecodeTime(Stored(t).next_poll) + Secs(GRACE_PERIOD)
      /\ now >= DecodeTime(Stored(t).kill_at)
           => get_keys_to_kill(t, AuthDecode(Stored(t)), now) # {}

SweepTakes ==
  /\ (sweep.pc # "delete" /\ sweep' # sweep) =>
        /\ UNCHANGED <<auths, rooms>>
        /\ \A t \in PairTokens :
             (auths[t] # None /\ now >= DecodeTime(Stored(t).kill_at))
               => Key(t) \in sweep'.pending
  /\ \A k \in sweep.pending :
        (sweep.pc = "delete" /\ k \notin sweep'.pending) => AbsentIn(auths', rooms', k)

\* C14 as claimed: and kill_at is the time of creation plus 3600 s.
KillAtExact ==
  \A t \in PairTokens :
    Created(t) => DecodeTime(auths'[t][1].kill_at) = now + Secs(MAX_CONNECTION)

\* C14 as claimed: the stored kill_at is exactly creation plus 3600 s.
CeilingAsClaimed == [][KillAtExact /\ KillAtKept /\ SweepTakes]_vars /\ []AliveExactly

\* C14 as amended: and kill_at is the time of creation plus 3600 s, cut to whole
\* seconds.
KillAtTruncated ==
  \A t \in PairTokens :
    Created(t) => auths'[t][1].kill_at = EncodeTime(now + Secs(MAX_CONNECTION))

\* C14 as amended: kill_at is stored truncated to whole seconds, never changes, and the sweep takes the session from that instant on.
Ceiling == [][KillAtTruncated /\ KillAtKept /\ SweepTakes]_vars /\ []AliveExactly

\* A sweep has deleted the record of a session it found past its kill_at and
\* within the grace period of its last poll.
CeilingWitness ==
  /\ sweep.pc = "done"
  /\ \E t \in sweep.capped : auths[t] = None /\ hist[t].joins = 1

\* Completion: two clients that pair, send their SDP and their terminator and
\* read each other's, while the cleanup sweep is scheduled.  The clock moves by
\* single ticks, and once both sessions are done it jumps past their grace
\* period.
BothDone == \A t \in PairTokens : DoneFor(t)

DoneBatches == { <<>>, <<JoinRoom("R1")>>, <<SDP, End>> }

DoneJump == BothDone /\ Tick(Jump, Jump + MaxNow)

Sweeps == CleanupList \/ \E k \in sweep.pending : CleanupDelete(k)

DoneNext ==
  \/ \E t \in PairTokens : Ident(t)
  \/ \E t \in PairTokens, b \in DoneBatches : PollStart(t, "svc-1", b, PairCodes)
  \/ \E t \in PairTokens : PollWriteRoom(t)
  \/ \E t \in PairTokens, b \in DoneBatches : PollLoadPeer(t, b)
  \/ \E t \in PairTokens : PollWrite(t)
  \/ Sweeps
  \/ Tick(1, (now \div Jump) * Jump + MaxNow)
  \/ DoneJump

SpecDone == Init /\ [][DoneNext]_vars

\* The clock advances and the sweeps keep running.
SpecDoneFair == SpecDone /\ WF_vars(DoneJump) /\ WF_vars(Sweeps)

\* C15: expiry after completion.  Once both sessions of a pair are done (each
\* has been told ConnectAt and has read the other's terminator), no session's
\* stored next_poll changes and no record is put again; both sessions are not
\* alive once the clock is 20 s past their stored next_poll; and in the end
\* neither session's record nor the room's is in the store.
WereDone ==
  \A t \in PairTokens :
    /\ hist[t].connects = 1
    /\ hist[t].delivered # <<>> /\ Last(hist[t].delivered) = End

PollFrozen ==
  WereDone =>
    \A t \in PairTokens :
      auths'[t] # None =>
        /\ auths[t] # None
        /\ auths'[t][1].next_poll = Stored(t).next_poll

DoneExpires ==
  \A t \in PairTokens :
    (WereDone /\ auths[t] # None
       /\ now >= DecodeTime(Stored(t).next_poll) + Secs(GRACE_PERIOD))
      => Key(t) \in get_keys_to_kill(t, AuthDecode(Stored(t)), now)

Gone ==
  /\ \A t \in PairTokens : auths[t] = None
  /\ \A c \in PairCodes : rooms[c] = None

\* C15: once both sessions are done no poll changes either record, and both records are eventually deleted.
ExpiryAfterDone == [][PollFrozen]_vars /\ []DoneExpires /\ (BothDone ~> Gone)

\* C16: dropped-connection atomicity.  A /poll handler that is dropped before
\* its session write has put nothing: no record of the store is as it is
\* because of that request.
NothingPut ==
  \A t \in Tokens : PollAbort(t) => req[t].wrote = {}

\* C16: a request dropped before its reply has put nothing.
DropAtomic == [][NothingPut]_vars

\* C17: key uniqueness.  No two creations obtain the same key, and no put of a
\* created record lands on a key the store holds.
Holds(c) == req[c].pc \in {"created", "held"}

KeysDiffer ==
  \A c, d \in Tokens :
    (c # d /\ Holds(c) /\ Holds(d)) => req[c].code # req[d].code

PutsFresh ==
  \A c \in Tokens :
    (req[c].pc = "created" /\ req'[c].pc = "held") => auths[req[c].code] = None

\* C17: no two creations obtain the same key and no creator's put overwrites a stored record.
KeyUniqueness == []KeysDiffer /\ [][PutsFresh]_vars

\* C18: session isolation.  A step of token t's /poll leaves every other
\* session's record as it was, deletes no record, puts at most one room record,
\* and the whole request puts at most one room record.
Polling(t) == req'[t] # req[t] \/ resp'.tok = t

OthersKept(t) == \A u \in Tokens \ {t} : auths'[u] = auths[u]

RoomsPut == {c \in Codes : rooms'[c] # rooms[c]}

Isolated ==
  \A t \in Tokens :
    Polling(t) =>
      /\ OthersKept(t)
      /\ auths[t] # None => auths'[t] # None
      /\ Cardinality(RoomsPut) <= 1
      /\ \A c \in RoomsPut : rooms'[c] # None

OneRoom == \A t \in Tokens : Cardinality(req[t].wrote) <= 1

\* C18: a poll puts at most its own session record and one room record, and touches no other session's record.
SessionIsolation == []OneRoom /\ [][Isolated]_vars

\* A session has put its room record, has been delivered its peer's signals and
\* has advanced its cursor, and the peer's stored record still has its whole
\* queue and its own cursor at 0.
SessionIsolationWitness ==
  \E t \in Tokens :
    /\ HasPeer(t)
    /\ rooms["R1"] # None
    /\ hist[t].delivered # <<>>
    /\ Stored(t).read = Len(Stored(PeerOf(t)).queue)
    /\ Len(Stored(PeerOf(t)).queue) = 3
    /\ Stored(PeerOf(t)).read = 0

\* C19: a stored connect_at is set only if the session and its peer have both
\* stored sent_sdp and one of them has stored ice_done; a session that computes
\* connect_at itself, neither record holding one, sets it to the peer's stored
\* next_poll plus 5 s.
ConnectGuard ==
  \A t \in Tokens :
    (auths[t] # None /\ Stored(t).connect_at # None) =>
      /\ HasPeer(t)
      /\ Stored(t).sent_sdp /\ Stored(PeerOf(t)).sent_sdp
      /\ Stored(t).ice_done \/ Stored(PeerOf(t)).ice_done

Computes(t) ==
  /\ req[t].pc \in {"idle", "getpeer"}
  /\ req'[t].pc = "write"
  /\ req'[t].user[1].connect_at # None
  /\ Stored(t).connect_at = None
  /\ Stored(req'[t].user[1].peer[1]).connect_at = None

ConnectComputed ==
  \A t \in Tokens :
    Computes(t) =>
      req'[t].user[1].connect_at =
        Some(DecodeTime(Stored(req'[t].user[1].peer[1]).next_poll)
               + Secs(CONNECT))

\* C19: connect_at is stored only with both SDPs and one finished candidate list, and a computed value is the peer's stored next_poll plus 5 s.
ConnectPrecondition == []ConnectGuard /\ [][ConnectComputed]_vars

\* A session has stored a connect_at it computed itself: its peer has stored
\* none, and one of the two has not finished its candidates.
ConnectPreconditionWitness ==
  \E t \in Tokens :
    /\ HasPeer(t)
    /\ Stored(PeerOf(t)).connect_at = None
    /\ Stored(t).connect_at =
         Some(DecodeTime(Stored(PeerOf(t)).next_poll) + Secs(CONNECT))
    /\ Stored(t).ice_done # Stored(PeerOf(t)).ice_done

\* The handler of a request whose batch holds JoinRoom(c) has passed the tag
\* check, has joined room c, and runs send_signal on the batch.
SendsJoin(t) ==
  /\ req[t].pc = "getpeer"
  /\ req[t].join # None /\ req[t].join[1] # None
  /\ req'[t].pc = "write"

HasJoin(q) == \E i \in 1..Len(q) : q[i].tag = "JoinRoom"

\* C20 as claimed: the submitted JoinRoom passes the tag check and send_signal
\* records it in the submitting session's queue.
JoinQueued ==
  \A t \in Tokens :
    SendsJoin(t) =>
      req'[t].user[1].queue =
        Append(Stored(t).queue, JoinRoom(req[t].join[1][1]))

\* C20 as claimed: a submitted JoinRoom passes the tag check and is appended to the session's queue.
JoinRecordedAsClaimed == [][JoinQueued]_vars

\* C20 as amended: the submitted JoinRoom passes the tag check and names the
\* room to join; send_signal drops it, the submitting session's queue is as it
\* was stored, and no stored queue holds a JoinRoom.
JoinDropped ==
  \A t \in Tokens :
    SendsJoin(t) =>
      /\ req'[t].user[1].room = req[t].join[1]
      /\ req'[t].user[1].queue = Stored(t).queue

NoJoinStored == \A t \in Tokens : auths[t] # None => ~HasJoin(Stored(t).queue)

\* C20 as amended: a submitted JoinRoom passes the tag check and is dropped by send_signal.
JoinNotRecorded == []NoJoinStored /\ [][JoinDropped]_vars

\* A session that submitted JoinRoom("R1") has been made answer of R1, has
\* stored its record and has been told JoinRoom; its stored queue is empty.
JoinNotRecordedWitness ==
  \E t \in Tokens :
    /\ auths[t] # None
    /\ rooms["R1"] # None
    /\ rooms["R1"][1].answer = Some(t)
    /\ Stored(t).room = "R1"
    /\ hist[t].joins = 1
    /\ Stored(t).queue = <<>>

\* A stored connect_at comes with read_connect, and a reply to the session has
\* held ConnectAt.
ConnectRead ==
  \A t \in Tokens :
    (auths[t] # None /\ Stored(t).connect_at # None) =>
      Stored(t).read_connect /\ hist[t].connects = 1

Refused(t) == resp = Reply(t, 400, "Connection done.")

\* A session that is refused has been sent ConnectAt, its peer has stored
\* sent_sdp and ice_done, and the session has been delivered the peer's whole
\* queue.
RefusedFinal ==
  \A t \in Tokens :
    Refused(t) =>
      /\ hist[t].connects = 1
      /\ HasPeer(t)
      /\ Stored(PeerOf(t)).sent_sdp /\ Stored(PeerOf(t)).ice_done
      /\ Stored(t).read = Len(Stored(PeerOf(t)).queue)
      /\ hist[t].delivered = Stored(PeerOf(t)).queue

\* The queue of a session that has stored sent_sdp and ice_done is final.
QueueFinal ==
  \A p \in Tokens :
    (auths[p] # None /\ Stored(p).sent_sdp /\ Stored(p).ice_done) =>
      /\ auths'[p] # None => auths'[p][1].queue = Stored(p).queue
      /\ req'[p].pc = "write" => req'[p].user[1].queue = Stored(p).queue

\* C21: in every stored session state connect_at set implies read_connect, so
\* no session is refused with "Connection done." before a reply of its own
\* held ConnectAt, and at the refusal the peer's queue is final and wholly
\* delivered.
ConnectDelivered == []ConnectRead /\ []RefusedFinal /\ [][QueueFinal]_vars

\* A session has just been refused: it was sent ConnectAt once and its peer's
\* three signals, and its stored record has read_connect.
ConnectDeliveredWitness ==
  \E t \in Tokens :
    /\ Refused(t)
    /\ Stored(t).connect_at # None /\ Stored(t).read_connect
    /\ hist[t].connects = 1
    /\ Len(hist[t].delivered) = 3

====
